---- MODULE Spec2Model ----
(***************************************************************************)
(* Model of tg-chat-notify (src/index.js): a service that polls one HTTP   *)
(* endpoint, compares the id of the first returned document with the id    *)
(* seen last, and sends a Telegram message when the id differs.            *)
(*                                                                         *)
(* pollHttpEndpoint is an async function.  Each invocation is a cycle that *)
(* is suspended at `await axios.get` (pc = "fetch") and, when the id has   *)
(* changed and the Telegram bot and chat id are configured, at             *)
(* `await bot.api.sendMessage` (pc = "send").  The code between two        *)
(* suspension points runs without interruption on the event loop, so each  *)
(* action below is one such run.  Invocations come from main (the first    *)
(* poll), from the node-schedule job and from the /check bot command.      *)
(***************************************************************************)
EXTENDS Integers, Sequences, FiniteSets, TLC

\* Number of pollHttpEndpoint invocations that may be in flight together.
MaxCycles == 2
\* Number of distinct document identifiers the endpoint serves.
NumIds == 2
\* Number of distinct values of the documents' other field.
NumValues == 2

\* The status the code accepts (line 114).
HTTP_OK == 200

\* The time of the timed specification runs from 0 to MaxTime steps.
MaxTime == 13

VARIABLES
    config,          \* which settings are present, and REQUEST_INTERVAL
    lastResponseId,  \* line 59
    lastResponse,    \* line 60
    mainPc,          \* position of main(): "start", "poll", "scheduled", "failed"
    pc,              \* per cycle: "idle", "fetch", "send"
    origin,          \* per cycle: who invoked it: "main", "sched", "check"
    responseData,    \* per cycle: the candidate held across the send await
    checkPc,         \* the bot's handler: "idle", "reply", "poll", "report",
                     \* or "status"
    reply,           \* the reply that the /check handler is sending
    checkOutcome,    \* outcome of the cycle the /check handler has awaited
    crashed,         \* an invocation threw into a caller that does not catch
    last,            \* record of the latest cycle step (history)
    statusReply,     \* the "Last update time" of the /status message being sent
    clock,           \* the time, in steps of SecondsPerStep seconds
    lastTick,        \* when the scheduled job fired last (history)
    commitTime       \* when lines 138-139 ran last (history)

vars == <<config, lastResponseId, lastResponse, mainPc, pc, origin,
          responseData, checkPc, reply, checkOutcome, crashed, last,
          statusReply, clock, lastTick, commitTime>>

\* The variables of time that the steps of a cycle and of /check leave alone.
timeVars == <<statusReply, clock, lastTick>>

Cycles == 1..MaxCycles

----------------------------------------------------------------------------
\* JavaScript values

JsNull == [t |-> "null"]
Undefined == [t |-> "undefined"]

\* Identifiers: JSON primitives, compared with !==
Ids == {[t |-> "id", v |-> i] : i \in 1..NumIds}

\* Documents: objects with an id (a primitive, or null) and one other field.
Docs == {[t |-> "object", id |-> i, value |-> v] : i \in Ids, v \in 1..NumValues}
        \cup {[t |-> "object", id |-> JsNull, value |-> 1]}

\* What the `data` array of a response may hold.
Elements == Docs \cup {JsNull}

\* An array of `data`: empty, one element, or a first element followed by
\* another document.
OtherDoc == [t |-> "object", id |-> [t |-> "id", v |-> NumIds], value |-> NumValues]
Arrays == {<< >>} \cup {<<e>> : e \in Elements} \cup {<<e, OtherDoc>> : e \in Elements}

\* response.data of a response: with no `data` field, or with an array.
Bodies == {[data |-> Undefined]}
          \cup {[data |-> [t |-> "array", elems |-> s]] : s \in Arrays}

Statuses == {HTTP_OK, 204, 404}

\* What the network does with one GET: no response (failure, timeout), or a
\* response with a status and a body.
FetchResults == {[kind |-> "network"]}
                \cup {[kind |-> "response", status |-> s, body |-> b] :
                        s \in Statuses, b \in Bodies}

\* The results that differ in what the program does with them: a response
\* with an error status is told from another only by its status.
FetchCases == {r \in FetchResults :
                 r.kind = "response" /\ r.status # HTTP_OK
                    => r.body = [data |-> Undefined]}

----------------------------------------------------------------------------
\* The synchronous pieces of pollHttpEndpoint

\* axios.get (lines 108-111): the promise is rejected when there is no
\* response within the timeout and, by axios's default validateStatus, when
\* the status is outside 200..299; otherwise it resolves with the response.
AxiosGet(r) ==
    IF r.kind = "network" \/ r.status < 200 \/ r.status > 299
    THEN [rejected |-> TRUE]
    ELSE [rejected |-> FALSE, status |-> r.status, data |-> r.body]

\* response.status !== 200 (line 114)
StatusRejected(status) == status # HTTP_OK

\* Mutant of FirstElement: the last element is taken instead of the first.
LastElement(body) ==
    IF body.data = Undefined THEN [threw |-> TRUE]
    ELSE IF Len(body.data.elems) = 0 THEN [threw |-> FALSE, value |-> Undefined]
    ELSE [threw |-> FALSE, value |-> body.data.elems[Len(body.data.elems)]]

\* response.data.data[0] (line 122): indexing undefined throws a TypeError,
\* indexing an empty array yields undefined.
FirstElement(body) ==
    IF body.data = Undefined THEN [threw |-> TRUE]
    ELSE IF Len(body.data.elems) = 0 THEN [threw |-> FALSE, value |-> Undefined]
    ELSE [threw |-> FALSE, value |-> body.data.elems[1]]

\* Mutant of GetId: the id is read with optional chaining, so that a missing
\* document reads as an undefined id instead of throwing.
GetIdOptional(x) ==
    IF x \in {Undefined, JsNull} THEN [threw |-> FALSE, value |-> Undefined]
    ELSE [threw |-> FALSE, value |-> x.id]

\* responseData.id (line 125): reading a property of undefined or null
\* throws a TypeError; a missing property reads as undefined.
GetId(x) ==
    IF x \in {Undefined, JsNull} THEN [threw |-> TRUE]
    ELSE [threw |-> FALSE, value |-> x.id]

\* Mutant of HasChanged: every fetched document counts as a change.
HasChangedAlways(currentId, lastId) == TRUE

\* currentId !== lastResponseId (line 128)
HasChanged(currentId, lastId) == currentId # lastId

\* formatResponse (lines 88-99): JSON.stringify of an object, String() of
\* anything else; a failure of JSON.stringify is caught inside.
formatResponse(x) ==
    IF x.t \in {"object", "null"}
    THEN [t |-> "string", text |-> "json", of |-> x]
    ELSE [t |-> "string", text |-> x.t, of |-> x]

\* The text handed to sendTelegramMessage (lines 131-133), without its
\* timestamp.
Message(x) == [status |-> "Data updated", body |-> formatResponse(x)]

\* The guard of sendTelegramMessage (line 68).
NotifierConfigured == config.bot /\ config.chatId

\* The try block of pollHttpEndpoint from the resumption after axios.get up
\* to the decision to notify (lines 108-130), for fetch result r against
\* the stored id.
Evaluate(r, lastId) ==
    LET response == AxiosGet(r) IN
    IF response.rejected THEN [outcome |-> "exception"]
    ELSE IF StatusRejected(response.status) THEN [outcome |-> "httpError"]
    ELSE LET first == FirstElement(response.data) IN
         IF first.threw THEN [outcome |-> "exception"]
         ELSE LET id == GetId(first.value) IN
              IF id.threw THEN [outcome |-> "exception"]
              ELSE [outcome |-> IF HasChanged(id.value, lastId)
                                THEN "changed" ELSE "unchanged",
                    responseData |-> first.value,
                    currentId |-> id.value]

\* Mutant of CatchBlock: the error is thrown again.
CatchAndRethrow(err) == "threw"

\* The catch block of pollHttpEndpoint (lines 143-146) logs the error and
\* lets the function return normally.
CatchBlock(err) == "returned"

\* Mutant of CallsNotifier: the notifier is called for unchanged data too.
CallsNotifierAlways(outcome) == outcome \in {"changed", "unchanged"}

\* if (hasChanged) (line 130): whether the cycle calls sendTelegramMessage.
CallsNotifier(outcome) == outcome = "changed"

\* Mutant of SendTelegramResult: a rejection is not caught.
SendTelegramUncaught(delivered) == IF delivered THEN "true" ELSE "throw"

\* How sendTelegramMessage ends once bot.api.sendMessage has settled
\* (lines 73-80): true on delivery; a rejection is caught and gives false.
SendTelegramResult(delivered) == IF delivered THEN "true" ELSE "false"

\* Mutant of AwaitPoll: the handler does not await pollHttpEndpoint and goes
\* on to its report at once.
NoAwaitPoll == "report"

\* Where the /check handler stands after calling pollHttpEndpoint (line
\* 194): it awaits the promise, and gets to line 195 when that settles.
AwaitPoll == "poll"

\* What the /check handler tells the requester after the poll (line 195).
CheckReport(outcome) == "completed"

----------------------------------------------------------------------------
\* The history record `last` describes the latest step of any cycle in the
\* vocabulary of the specification: what the endpoint served (FetchClass,
\* Candidate), next to what the program made of it (outcome, result,
\* notifier, calls).

\* PollResult of the specification: HttpError for a status other than 200,
\* TransportError for a network failure, a timeout or a body without a
\* usable first document, Success otherwise.
FetchClass(r) ==
    IF r.kind = "network" THEN "transport"
    ELSE IF r.status # 200 THEN "http"
    ELSE IF r.body.data = Undefined THEN "malformed"
    ELSE IF r.body.data.elems = << >> THEN "malformed"
    ELSE IF Head(r.body.data.elems) \notin Docs THEN "malformed"
    ELSE "success"

\* The candidate document of a successful fetch: the first of the sequence.
Candidate(r) ==
    IF FetchClass(r) = "success" THEN Head(r.body.data.elems) ELSE JsNull

NoEvent == [fetch |-> "none", served |-> JsNull, outcome |-> "none",
            result |-> "none", notifier |-> "notCalled", calls |-> 0,
            message |-> Undefined]

----------------------------------------------------------------------------
\* Configuration (lines 40-48)

\* REQUEST_INTERVAL when the variable is not set (line 42).
DefaultInterval == 300

\* The environments: token, chat id and API_URL present or not; nothing in
\* lines 40-48 checks that any of them is.
Configs == {[bot |-> b, chatId |-> c, url |-> u, interval |-> DefaultInterval] :
              b \in BOOLEAN, c \in BOOLEAN, u \in BOOLEAN}

\* What one GET can come to: without API_URL axios.get(undefined) is rejected
\* before anything is sent.
FetchOutcomes ==
    IF config.url THEN FetchCases ELSE {r \in FetchCases : r.kind = "network"}

\* A point of time.
Time(n) == [t |-> "time", v |-> n]
Now == Time(clock)

\* The state after the module is loaded, in one of the environments cfgs.
Start(cfgs) ==
    /\ config \in cfgs
    /\ statusReply = Undefined
    /\ clock = 0
    /\ lastTick = Undefined
    /\ commitTime = Undefined
    /\ lastResponseId = JsNull
    /\ lastResponse = JsNull
    /\ mainPc = "start"
    /\ pc = [c \in Cycles |-> "idle"]
    /\ origin = [c \in Cycles |-> "none"]
    /\ responseData = [c \in Cycles |-> JsNull]
    /\ checkPc = "idle"
    /\ reply = "none"
    /\ checkOutcome = "none"
    /\ crashed = FALSE
    /\ last = NoEvent

Init == Start(Configs)

\* A call of pollHttpEndpoint by `who`: runs to `await axios.get` (105-108).
Invoke(c, who) ==
    /\ pc[c] = "idle"
    /\ \A d \in 1..(c - 1) : pc[d] # "idle"
    /\ pc' = [pc EXCEPT ![c] = "fetch"]
    /\ origin' = [origin EXCEPT ![c] = who]

\* What the caller of cycle c does when the invocation settles with `result`
\* ("returned" or "threw"); the /check handler goes on to send its report
\* (line 195).
Settle(c, outcome, result) ==
    /\ mainPc' = IF origin[c] = "main"
                 THEN (IF result = "returned" THEN "scheduled" ELSE "failed")
                 ELSE mainPc
    /\ checkPc' = IF origin[c] = "check"
                  THEN (IF result = "returned" THEN "report" ELSE "idle")
                  ELSE checkPc
    /\ checkOutcome' = IF origin[c] = "check" THEN outcome ELSE checkOutcome
    /\ reply' = IF origin[c] = "check" /\ result = "returned"
                THEN CheckReport(outcome) ELSE reply
    /\ crashed' = (crashed \/ (origin[c] = "sched" /\ result = "threw"))

\* Mutant of Commit: the stored id is not updated.
CommitPayloadOnly(cand, id) ==
    /\ lastResponse' = cand
    /\ lastResponseId' = lastResponseId
    /\ commitTime' = Now

\* Lines 138-139.
Commit(cand, id) ==
    /\ lastResponse' = cand
    /\ lastResponseId' = id
    /\ commitTime' = Now

\* main(), lines 207-220: starts the first poll.
MainStart ==
    /\ mainPc = "start"
    /\ mainPc' = "poll"
    /\ \E c \in Cycles : Invoke(c, "main")
    /\ UNCHANGED <<config, lastResponseId, lastResponse, responseData,
                   checkPc, reply, checkOutcome, crashed, last>>
    /\ UNCHANGED <<timeVars, commitTime>>

\* The callback of the scheduled job runs (lines 223-225).  node-schedule
\* runs it whether or not an earlier run has settled.
Fire(c) ==
    /\ mainPc = "scheduled"
    /\ ~crashed
    /\ Invoke(c, "sched")
    /\ UNCHANGED <<config, lastResponseId, lastResponse, mainPc, responseData,
                   checkPc, reply, checkOutcome, crashed, last>>

\* The scheduled job fires, at a time that is left open.
Tick(c) ==
    /\ Fire(c)
    /\ UNCHANGED <<timeVars, commitTime>>

\* /check arrives (lines 191-192): the handler sends its first reply.  The
\* bot exists only with a token (lines 51-52, 153); grammY's long polling
\* handles one update at a time.
CheckCommand ==
    /\ config.bot
    /\ mainPc # "start"
    /\ ~crashed
    /\ checkPc = "idle"
    /\ checkPc' = "reply"
    /\ reply' = "running"
    /\ UNCHANGED <<config, lastResponseId, lastResponse, mainPc, pc, origin,
                   responseData, checkOutcome, crashed, last>>
    /\ UNCHANGED <<timeVars, commitTime>>

\* The first reply settles (lines 192-194): on success the handler calls
\* pollHttpEndpoint; a failed reply throws out of the handler to bot.catch.
CheckPoll(c, ok) ==
    /\ checkPc = "reply"
    /\ IF ok
       THEN /\ Invoke(c, "check")
            /\ checkPc' = AwaitPoll
       ELSE /\ checkPc' = "idle"
            /\ UNCHANGED <<pc, origin>>
    /\ reply' = "none"
    /\ UNCHANGED <<config, lastResponseId, lastResponse, mainPc, responseData,
                   checkOutcome, crashed, last>>
    /\ UNCHANGED <<timeVars, commitTime>>

\* The second reply settles, delivered or not, and the handler ends (lines
\* 195-196).
CheckReply ==
    /\ checkPc = "report"
    /\ checkPc' = "idle"
    /\ reply' = "none"
    /\ checkOutcome' = "none"
    /\ UNCHANGED <<config, lastResponseId, lastResponse, mainPc, pc, origin,
                   responseData, crashed, last>>
    /\ UNCHANGED <<timeVars, commitTime>>

\* Whether a value is truthy: null and undefined are not, objects are.
Truthy(x) == x.t \notin {"null", "undefined"}

\* The "Last update time" of the status message (line 184): the present
\* time, formatted, once a document is stored.
StatusLastUpdate ==
    IF Truthy(lastResponse) THEN Now
    ELSE [t |-> "string", s |-> "No data retrieved yet"]

\* Mutant of StatusCommand: the handler also forgets the stored document.
StatusCommandClears ==
    /\ config.bot
    /\ mainPc # "start"
    /\ ~crashed
    /\ checkPc = "idle"
    /\ checkPc' = "status"
    /\ statusReply' = StatusLastUpdate
    /\ lastResponse' = JsNull
    /\ UNCHANGED <<config, lastResponseId, mainPc, pc, origin,
                   responseData, reply, checkOutcome, crashed, last,
                   clock, lastTick, commitTime>>

\* /status arrives (lines 177-186): the handler builds the message from
\* config and lastResponse and sends it.
StatusCommand ==
    /\ config.bot
    /\ mainPc # "start"
    /\ ~crashed
    /\ checkPc = "idle"
    /\ checkPc' = "status"
    /\ statusReply' = StatusLastUpdate
    /\ UNCHANGED <<config, lastResponseId, lastResponse, mainPc, pc, origin,
                   responseData, reply, checkOutcome, crashed, last,
                   clock, lastTick, commitTime>>

\* The reply of /status settles and the handler ends (lines 186-188).
StatusDone ==
    /\ checkPc = "status"
    /\ checkPc' = "idle"
    /\ statusReply' = Undefined
    /\ UNCHANGED <<config, lastResponseId, lastResponse, mainPc, pc, origin,
                   responseData, reply, checkOutcome, crashed, last,
                   clock, lastTick, commitTime>>

\* axios.get settles for cycle c with fetch result r; the function runs on
\* to its next suspension point or to its end (lines 108-147).
FetchReturns(c, r) ==
    /\ pc[c] = "fetch"
    /\ LET e == Evaluate(r, lastResponseId)
           ev == [fetch |-> FetchClass(r), served |-> Candidate(r),
                  outcome |-> e.outcome] IN
       IF e.outcome \in {"exception", "httpError"}
       THEN \* lines 114-119, or the catch block
            LET result == IF e.outcome = "exception"
                          THEN CatchBlock(e.outcome) ELSE "returned" IN
            /\ pc' = [pc EXCEPT ![c] = "idle"]
            /\ origin' = [origin EXCEPT ![c] = "none"]
            /\ Settle(c, e.outcome, result)
            /\ last' = ev @@ [result |-> result, notifier |-> "notCalled",
                              calls |-> 0, message |-> Undefined]
            /\ UNCHANGED <<lastResponseId, lastResponse, responseData,
                           commitTime>>
       ELSE IF CallsNotifier(e.outcome) /\ NotifierConfigured
       THEN \* lines 131-134 and 73-74: suspended in bot.api.sendMessage
            /\ pc' = [pc EXCEPT ![c] = "send"]
            /\ responseData' = [responseData EXCEPT ![c] = e.responseData]
            /\ last' = ev @@ [result |-> "pending", notifier |-> "pending",
                              calls |-> 1, message |-> Message(e.responseData)]
            /\ UNCHANGED <<lastResponseId, lastResponse, origin, mainPc,
                           checkPc, checkOutcome, reply, crashed, commitTime>>
       ELSE \* no call of the notifier, or one that returns false at once
            \* (lines 68-71); then lines 138-141
            /\ Commit(e.responseData, e.currentId)
            /\ pc' = [pc EXCEPT ![c] = "idle"]
            /\ origin' = [origin EXCEPT ![c] = "none"]
            /\ Settle(c, e.outcome, "returned")
            /\ last' = ev @@ [result |-> "returned",
                              notifier |-> IF CallsNotifier(e.outcome)
                                           THEN "failed" ELSE "notCalled",
                              calls |-> IF CallsNotifier(e.outcome) THEN 1 ELSE 0,
                              message |-> IF CallsNotifier(e.outcome)
                                          THEN Message(e.responseData)
                                          ELSE Undefined]
            /\ UNCHANGED responseData
    /\ UNCHANGED <<config, timeVars>>

\* bot.api.sendMessage settles for cycle c, delivered or not (lines 74-80);
\* then lines 138-141, or the catch block if sendTelegramMessage threw.
SendReturns(c, delivered) ==
    /\ pc[c] = "send"
    /\ LET sent == SendTelegramResult(delivered)
           outcome == IF sent = "throw" THEN "exception" ELSE "changed"
           result == IF sent = "throw" THEN CatchBlock(sent) ELSE "returned" IN
       /\ IF sent = "throw"
          THEN UNCHANGED <<lastResponseId, lastResponse, commitTime>>
          ELSE Commit(responseData[c], GetId(responseData[c]).value)
       /\ Settle(c, outcome, result)
       /\ last' = [fetch |-> "success", served |-> responseData[c],
                   outcome |-> outcome, result |-> result,
                   notifier |-> IF sent = "true" THEN "sent" ELSE "failed",
                   calls |-> 1, message |-> Message(responseData[c])]
    /\ pc' = [pc EXCEPT ![c] = "idle"]
    /\ origin' = [origin EXCEPT ![c] = "none"]
    /\ responseData' = [responseData EXCEPT ![c] = JsNull]
    /\ UNCHANGED <<config, timeVars>>

Next ==
    \/ MainStart
    \/ \E c \in Cycles : Tick(c)
    \/ CheckCommand
    \/ \E c \in Cycles, ok \in BOOLEAN : CheckPoll(c, ok)
    \/ CheckReply
    \/ \E c \in Cycles : \E r \in FetchOutcomes : FetchReturns(c, r)
    \/ \E c \in Cycles, ok \in BOOLEAN : SendReturns(c, ok)
    \/ StatusCommand
    \/ StatusDone

Spec == Init /\ [][Next]_vars

\* Mutant of Fairness: only axios.get is sure to settle.
FairnessFetchOnly ==
    \A c \in Cycles : WF_vars(\E r \in FetchOutcomes : FetchReturns(c, r))

\* The awaited calls settle: axios.get within its timeout (line 110) at the
\* latest, bot.api.sendMessage (line 74) within the time that grammY gives
\* a request to the Bot API.
Fairness ==
    \A c \in Cycles :
        /\ WF_vars(\E r \in FetchOutcomes : FetchReturns(c, r))
        /\ WF_vars(\E ok \in BOOLEAN : SendReturns(c, ok))

SpecLive == Spec /\ Fairness

----------------------------------------------------------------------------
\* The program with a clock: when the scheduled job fires and what /status
\* reports.  One step of the clock is SecondsPerStep seconds; the intervals
\* are multiples of it, so every second that the rule matches is a step.

SecondsPerStep == 5
SecondsPerMinute == 60

\* Values of REQUEST_INTERVAL: a divisor of 60, a number that does not
\* divide 60, and the default.
Intervals == {20, 25, DefaultInterval}

\* The environments of the timed specification: a bot without a chat id.
TimedConfigs == {[bot |-> TRUE, chatId |-> FALSE, url |-> TRUE, interval |-> n] :
                   n \in Intervals}

\* The rule `*/n * * * * *` (line 223) at step t: the first field of the six
\* is the second of the minute, and */n matches the seconds 0, n, 2n, ...
\* below 60; the other fields match always.
CronMatches(n, t) ==
    LET second == (t * SecondsPerStep) % SecondsPerMinute IN
    second % n = 0

\* The job is set up and has not run at a time that its rule matches.
Due ==
    /\ mainPc = "scheduled"
    /\ ~crashed
    /\ CronMatches(config.interval, clock)
    /\ lastTick # Now

\* The scheduled job fires at a time that its rule matches (lines 223-225).
CronTick(c) ==
    /\ Due
    /\ Fire(c)
    /\ lastTick' = Now
    /\ UNCHANGED <<statusReply, clock, commitTime>>

\* Time passes; the job does not miss a time that its rule matches.
Advance ==
    /\ clock < MaxTime
    /\ ~Due
    /\ clock' = clock + 1
    /\ UNCHANGED <<config, lastResponseId, lastResponse, mainPc, pc, origin,
                   responseData, checkPc, reply, checkOutcome, crashed, last,
                   statusReply, lastTick, commitTime>>

InitTimed == Start(TimedConfigs)

NextTimed ==
    \/ MainStart
    \/ \E c \in Cycles : CronTick(c)
    \/ Advance
    \/ \E c \in Cycles : \E r \in FetchOutcomes : FetchReturns(c, r)
    \/ StatusCommand
    \/ StatusDone

SpecTimed == InitTimed /\ [][NextTimed]_vars

----------------------------------------------------------------------------
\* Vocabulary of the properties

\* Cycles between their call and their return, and those between their
\* evaluation (line 128) and their commit (lines 138-139).
InFlight == {c \in Cycles : pc[c] # "idle"}
InSection == {c \in Cycles : pc[c] = "send"}

\* Cycle c resumes from axios.get in this step.
Resumes(c) == pc[c] = "fetch" /\ pc'[c] # "fetch"
\* Cycle c ends in this step.
Returns(c) == pc[c] # "idle" /\ pc'[c] = "idle"
\* The fetch of the cycle that resumes in this step failed / succeeded.
FetchFailed == last'.fetch \in {"http", "transport", "malformed"}
FetchSucceeded == last'.fetch = "success"
\* A document whose change-detection key exists.
HasKey(d) == d \in Docs /\ d.id \in Ids
\* No successful fetch has happened yet.
EmptyState == lastResponse = JsNull /\ lastResponseId = JsNull /\ InSection = {}

----------------------------------------------------------------------------
\* C1: at most one poll cycle is in progress at any time, so that no cycle
\* evaluates (reads lastResponseId) while another cycle is between its own
\* evaluation and its commit.
C1_SectionsNeverOverlap ==
    [][\A c \in Cycles : Resumes(c) /\ FetchSucceeded => InSection \subseteq {c}]_vars

\* C2: a cycle whose fetch ends in an HTTP error or a transport error
\* (network failure, timeout, malformed body) leaves lastResponseId and
\* lastResponse as they were, calls no notifier and ends.
C2_NoMutationOnFailure ==
    [][\A c \in Cycles : Resumes(c) /\ FetchFailed =>
          /\ lastResponseId' = lastResponseId
          /\ lastResponse' = lastResponse
          /\ last'.calls = 0
          /\ last'.notifier = "notCalled"
          /\ Returns(c)]_vars

\* A failed cycle has just ended while a document is stored.
C2_Witness ==
    /\ last.fetch \in {"http", "transport", "malformed"}
    /\ last.result = "returned"
    /\ lastResponse \in Docs

\* C3: when candidate B is evaluated while document A is the committed one,
\* the evaluation says "changed" exactly when the ids of A and B differ,
\* whatever their other fields.
C3_ChangedIffIdsDiffer ==
    [][\A c \in Cycles : Resumes(c) /\ FetchSucceeded /\ lastResponse \in Docs =>
          /\ last'.outcome \in {"changed", "unchanged"}
          /\ (last'.outcome = "changed") <=> (last'.served.id # lastResponse.id)]_vars

\* B has been evaluated as changed against a committed A that differs from
\* it in the id only.
C3_Witness ==
    /\ last.fetch = "success" /\ last.result = "pending"
    /\ lastResponse \in Docs
    /\ last.served.id # lastResponse.id
    /\ last.served.value = lastResponse.value

\* C4: from the empty state the first successful fetch (of a document with
\* a key) is evaluated as changed and calls the notifier, and a later
\* successful fetch of the same id is evaluated as unchanged, be the first
\* one committed already or still being notified.
C4_FirstChangeReportedOnce ==
    [][\A c \in Cycles : Resumes(c) /\ FetchSucceeded /\ HasKey(last'.served) =>
          /\ EmptyState => last'.outcome = "changed" /\ last'.calls = 1
          /\ (HasKey(lastResponse) /\ lastResponse.id = last'.served.id)
                => last'.outcome = "unchanged"
          /\ \A d \in InSection :
                (lastResponse = JsNull /\ responseData[d].id = last'.served.id)
                   => last'.outcome = "unchanged"]_vars

\* C5: when a cycle whose fetch succeeded ends, lastResponse is its
\* candidate and lastResponseId is the candidate's id, changed or not; a
\* cycle suspended in the notifier holds the candidate it fetched.
C5_CommitAfterEverySuccess ==
    [][\A c \in Cycles :
          /\ (Resumes(c) /\ FetchSucceeded /\ ~Returns(c))
                => responseData'[c] = last'.served
          /\ (Returns(c) /\ FetchSucceeded)
                => /\ lastResponse' = last'.served
                   /\ lastResponseId' = last'.served.id]_vars

\* An unchanged cycle has just committed its candidate.
C5_Witness ==
    /\ last.fetch = "success" /\ last.outcome = "unchanged"
    /\ last.result = "returned"
    /\ lastResponse = last.served
    /\ lastResponse.value = NumValues

\* C6: when the notifier fails for a changed candidate, the cycle commits
\* the candidate and ends after its single call of the notifier; and the
\* next successful fetch of the same id calls no notifier.
C6_NotifierFailureStillCommits ==
    [][\A c \in Cycles :
          /\ (Returns(c) /\ last'.notifier = "failed")
                => /\ lastResponse' = last'.served
                   /\ lastResponseId' = last'.served.id
                   /\ last'.calls = 1
                   /\ last'.result = "returned"
          /\ (Resumes(c) /\ FetchSucceeded /\ last.notifier = "failed"
                /\ last'.served.id = last.served.id)
                => /\ last'.outcome = "unchanged"
                   /\ last'.calls = 0]_vars

\* A send that was attempted has failed and the candidate is committed.
C6_Witness ==
    /\ NotifierConfigured
    /\ last.notifier = "failed" /\ last.result = "returned"
    /\ lastResponse = last.served
    /\ lastResponse \in Docs

\* C7: a cycle calls the notifier exactly when its fetch succeeded and the
\* candidate's id differs from the stored id, and then once.
C7_NotifierCalledIffChanged ==
    /\ last.calls \in {0, 1}
    /\ last.calls = 1 <=> (last.fetch = "success" /\ last.outcome = "changed")
    /\ last.calls = 0 <=> last.notifier = "notCalled"
    /\ last.fetch \in {"http", "transport", "malformed"} => last.calls = 0

\* A changed cycle has called the notifier and the message went out.
C7_Witness ==
    /\ last.outcome = "changed" /\ last.calls = 1 /\ last.notifier = "sent"

\* C8: a trigger that arrives while a cycle is in flight starts no second
\* cycle, and an on-demand check is then answered "already running".
C8_TriggerWhileInFlightIsDropped ==
    [][InFlight # {} =>
          /\ InFlight' \subseteq InFlight
          /\ (checkPc = "idle" /\ checkPc' = "reply") => reply' = "already running"]_vars

\* C9: no error of a poll cycle leaves pollHttpEndpoint: every invocation
\* returns normally, main gets to schedule the job, and the job stays able
\* to fire.
C9_NoErrorEscapes ==
    /\ last.result # "threw"
    /\ ~crashed
    /\ mainPc # "failed"
    /\ (mainPc = "scheduled" /\ InFlight # Cycles) => ENABLED (\E c \in Cycles : Tick(c))

\* A cycle that hit an exception has returned and the job is scheduled.
C9_Witness ==
    /\ last.outcome = "exception" /\ last.result = "returned"
    /\ last.fetch = "malformed"
    /\ mainPc = "scheduled"

\* C10: the report of an on-demand check tells the outcome of its cycle: a
\* check whose fetch failed is not reported as completed.
C10_CheckReportsOutcome ==
    [][(checkPc # "report" /\ checkPc' = "report"
          /\ checkOutcome' \in {"httpError", "exception"})
        => reply' # "completed"]_vars

\* C11: the report of an on-demand check goes out only after the cycle that
\* the check started has finished: while the handler is at its report, no
\* cycle invoked by /check is in flight.
C11_ReportAfterCycle ==
    (checkPc = "report" \/ reply = "completed")
        => \A c \in Cycles : origin[c] # "check"

\* The handler is telling the requester that the check completed.
C11_Witness ==
    /\ reply = "completed" /\ checkPc = "report"
    /\ last.result = "returned"

\* C14: once candidate C is committed, a cycle that fetches C again is
\* evaluated as unchanged, calls no notifier and leaves lastResponseId and
\* lastResponse as they are; so does any cycle that ends holding C.
C14_RepeatedCommitIdempotent ==
    [][\A c \in Cycles :
          /\ (Resumes(c) /\ FetchSucceeded /\ last'.served = lastResponse)
                => /\ last'.outcome = "unchanged"
                   /\ last'.calls = 0
                   /\ Returns(c)
          /\ (Returns(c) /\ FetchSucceeded /\ last'.served = lastResponse)
                => /\ lastResponse' = lastResponse
                   /\ lastResponseId' = lastResponseId]_vars

\* The committed candidate has been fetched and committed again.
C14_Witness ==
    /\ last.fetch = "success" /\ last.outcome = "unchanged"
    /\ last.result = "returned"
    /\ lastResponse = last.served
    /\ HasKey(lastResponse) /\ lastResponse.value = 1

\* C16: a 200 response without a usable first document (no data field, an
\* empty array) ends the cycle as an error: the outcome is an exception that
\* is caught and logged, not "unchanged"; nothing is stored or notified.
C16_MalformedIsError ==
    [][\A c \in Cycles : (Resumes(c) /\ last'.fetch = "malformed") =>
          /\ last'.outcome = "exception"
          /\ last'.result = "returned"
          /\ last'.calls = 0
          /\ Returns(c)
          /\ lastResponse' = lastResponse
          /\ lastResponseId' = lastResponseId]_vars

\* A malformed 200 response has been handled while a document is stored and
\* another cycle is in flight.
C16_Witness ==
    /\ last.fetch = "malformed" /\ last.outcome = "exception"
    /\ lastResponse \in Docs
    /\ InFlight # {}

\* C19: lastResponseId and lastResponse belong to the same document in every
\* reachable state: both are empty, or lastResponseId is the id of
\* lastResponse.
C19_KeyMatchesPayload ==
    \/ lastResponse = JsNull /\ lastResponseId = JsNull
    \/ lastResponse \in Docs /\ lastResponseId = lastResponse.id

\* A document is stored while two cycles are between evaluation and commit.
C19_Witness ==
    /\ lastResponse \in Docs
    /\ Cardinality(InSection) = 2

\* C20: a change of the id is notified at most once: two notifications
\* delivered one after the other, with no fetch returning in between, are
\* never for the same id.
C20_ChangeNotifiedOnce ==
    [][\A c \in Cycles :
          (Returns(c) /\ last.notifier = "sent" /\ last'.notifier = "sent")
             => last'.served.id # last.served.id]_vars

\* C15: without API_URL the program does not start polling: no cycle is
\* ever in flight and the scheduled job is never set up.
C15_RefusesWithoutUrl ==
    ~config.url => (InFlight = {} /\ mainPc \notin {"poll", "scheduled"})

\* C12: a status query changes neither lastResponseId, lastResponse nor the
\* configuration, whether or not a poll cycle is in flight.
C12_StatusReadsOnly ==
    [][(checkPc = "idle" /\ checkPc' = "status")
          => UNCHANGED <<lastResponseId, lastResponse, config>>]_vars

\* A status query is being answered from a stored document while a cycle is
\* between its evaluation and its commit.
C12_Witness ==
    /\ checkPc = "status"
    /\ statusReply.t = "time"
    /\ InSection # {}

\* C13: /status reports "no data yet" exactly when no cycle has committed,
\* and otherwise the time of the latest commit.
C13_StatusReportsLastCommit ==
    [][(checkPc = "idle" /\ checkPc' = "status") =>
          /\ statusReply'.t = "string" <=> commitTime = Undefined
          /\ commitTime # Undefined => statusReply' = commitTime]_vars

\* C17: two consecutive runs of the scheduled job are REQUEST_INTERVAL
\* seconds apart.
C17_FixedPeriod ==
    [][(lastTick # Undefined /\ lastTick' # lastTick) =>
          (lastTick'.v - lastTick.v) * SecondsPerStep = config.interval]_vars

====
